---- MODULE Spec2Model ----
(***************************************************************************)
(* e028_looper.py: a polling daemon that copies the files arriving in a    *)
(* source directory to a destination directory, compares the MD5 digests   *)
(* of source and copy, and keeps a text ledger (the "logfile") of the      *)
(* handled paths.                                                          *)
(*                                                                         *)
(* Strings are sequences of one-character strings, a file is a record      *)
(* [exists, data], and the process is a program counter over the           *)
(* statements of main()/process_loop().  The writer of the source          *)
(* directory (a bounded number of steps), a disturbance of the destination *)
(* between copy and verify, and the death and restart of the process (any  *)
(* number of times) are the environment.  Nobody but put_into_logfile      *)
(* writes the ledger.                                                      *)
(*                                                                         *)
(* File names contain neither "/" nor a newline.                           *)
(***************************************************************************)
EXTENDS Integers, Sequences, FiniteSets, TLC

\* ---------------------------------------------------------------- bounds
\* Largest file size (in bytes) the writer produces.
MaxSize == 1
\* How many times the writer touches the source directory in one behaviour.
MaxWrites == 1

\* ------------------------------------------------------------ the inputs
NL == "\n"
\* from_path after os.path.join(from_path, ""): it ends with the separator.
from_path == <<"s", "/">>
\* The file names that can occur in the source directory.
Names == {<<"a">>, <<"a", "b">>}
Byte == {0, 1}

RECURSIVE SeqsUpTo(_, _)
SeqsUpTo(S, n) ==
    IF n = 0 THEN {<<>>}
    ELSE LET shorter == SeqsUpTo(S, n - 1)
         IN  shorter \cup {Append(s, x) : s \in {t \in shorter : Len(t) = n - 1}, x \in S}

Contents == SeqsUpTo(Byte, MaxSize)
NoFile == [exists |-> FALSE, data |-> <<>>]
File(d) == [exists |-> TRUE, data |-> d]

\* ------------------------------------------------------- pure functions
\* os.path.join(from_path, file), from_path ending with the separator.
fullfilename(file) == from_path \o file

\* Python's `x in y` on strings: x occurs in y as a contiguous substring.
StrIn(x, y) == \E i \in 0..(Len(y) - Len(x)) : SubSeq(y, i + 1, i + Len(x)) = x

\* f.readlines(): the text cut after every newline, the newline kept.
RECURSIVE readlines(_)
readlines(text) ==
    IF text = <<>> THEN <<>>
    ELSE LET ends == {i \in 1..Len(text) : text[i] = NL}
             cut  == IF ends = {} THEN Len(text)
                     ELSE CHOOSE i \in ends : \A j \in ends : i <= j
         IN  <<SubSeq(text, 1, cut)>> \o readlines(SubSeq(text, cut + 1, Len(text)))

\* already_copied(filename, logfile): "yes", "no", or "raise" for an
\* exception leaving the function.  An OSError of open() is caught.
AlreadyCopiedNoExcept(filename, logfile) ==
    IF ~logfile.exists THEN "raise"
    ELSE LET loglist == readlines(logfile.data)
         IN  IF \E k \in 1..Len(loglist) : StrIn(filename, loglist[k])
             THEN "yes" ELSE "no"

AlreadyCopiedWholeLine(filename, logfile) ==
    IF ~logfile.exists THEN "no"
    ELSE LET loglist == readlines(logfile.data)
         IN  IF \E k \in 1..Len(loglist) : filename = loglist[k]
             THEN "yes" ELSE "no"

\* Line 66 lost: the flag is never set.
AlreadyCopiedNever(filename, logfile) ==
    "no"

already_copied(filename, logfile) ==
    IF ~logfile.exists THEN "no"
    ELSE LET loglist == readlines(logfile.data)
         IN  IF \E k \in 1..Len(loglist) : StrIn(filename, loglist[k])
             THEN "yes" ELSE "no"

\* put_into_logfile(filename, logfile): the logfile after open(.., "a"),
\* write(filename + "\n") and close.  Mode "a" creates a missing file.
PutIntoLogfileNoWrite(filename, logfile) ==
    File(logfile.data)

put_into_logfile(filename, logfile) ==
    File(Append(logfile.data \o filename, NL))

\* hashlib.md5(d).hexdigest(): a digest of the exact bytes.  On the byte
\* strings of this model MD5 has no collision, and neither has this code.
RECURSIVE md5(_)
md5(d) == IF d = <<>> THEN 1 ELSE 2 * md5(SubSeq(d, 1, Len(d) - 1)) + d[Len(d)]

\* get_checksum(filename) on an existing file f.
get_checksum(f) == md5(f.data)

\* os.path.getsize on an existing file.
getsize(f) == Len(f.data)

\* The decision of ready_for_copy once both sizes were read.
IsReadyAlways(size1, size2) == TRUE

is_ready(size1, size2) == size1 = size2

\* The test of line 36: TRUE when process_loop calls exit().
MismatchIgnored(sum1, sum2) == FALSE

mismatch(sum1, sum2) == ~(sum1 = sum2)

\* ----------------------------------------------------------------- state
VARIABLES
    src,        \* the source directory: file name -> file
    dst,        \* the destination directory: file name -> file
    logfile,    \* the ledger file
    pc,         \* the statement the process is at
    todo,       \* the entries of os.listdir the for loop has still to visit
    file,       \* the loop variable (<<>> outside the loop)
    s1,         \* ready_for_copy's first size
    c1,         \* checksum of the source file
    c2,         \* checksum of the destination file
    writes,     \* writer steps so far
    fault,      \* why the process is dead: "none", "kill", "exit", "io"
    diedAt,     \* the statement it died at
    verified,   \* history: names whose copy passed the comparison of line 36
    starts,     \* history: how often shutil.copy was started per name (capped)
    cyc         \* history of the current call of process_loop

vars == <<src, dst, logfile, pc, todo, file, s1, c1, c2, writes,
          fault, diedAt, verified, starts, cyc>>

fsVars   == <<src, dst, logfile>>
locals   == <<todo, file, s1, c1, c2>>
envVars  == <<writes>>
histVars == <<verified, starts>>

NoSample == <<-1, -1>>
\* The statements between the ready decision and the end of verification.
CopySteps == {"put", "sum1", "copy", "write", "sum2", "if"}

\* The lines of the ledger that are exactly `name`'s path.
Recorded(name) ==
    /\ logfile.exists
    /\ LET loglist == readlines(logfile.data)
       IN  \E k \in 1..Len(loglist) : loglist[k] = Append(fullfilename(name), NL)

Perms(S) ==
    {s \in [1..Cardinality(S) -> S] : \A i, j \in 1..Cardinality(S) : s[i] = s[j] => i = j}

FreshCycle ==
    [listed  |-> {},                          \* what os.listdir returned
     before  |-> {},                          \* names recorded when it was called
     logfile0 |-> NoFile,                     \* the ledger when it was called
     dst0    |-> [n \in Names |-> NoFile],    \* the destination when it was called
     second  |-> FALSE,                       \* the call before returned, and the
                                              \* writer was idle since that call began
     changed |-> {},                          \* names the writer touched since
     retry   |-> {},                          \* names the call before, having
                                              \* returned, found not ready
     samples |-> [n \in Names |-> NoSample],  \* the two sizes read, once both were
     notready |-> {},                         \* ready_for_copy returned False
     skipped |-> {},                          \* already_copied said yes
     put     |-> {},                          \* put_into_logfile was called
     summed  |-> {},                          \* get_checksum was called
     copied  |-> [n \in Names |-> 0],         \* shutil.copy calls that returned
     raced   |-> {},                          \* shutil.copy read other bytes than
                                              \* get_checksum had read
     damaged |-> {},                          \* the copy was altered before line 34
     done    |-> FALSE]                       \* process_loop has returned

\* The program starts in main, before the first call of process_loop: each
\* file of the source directory is absent, empty or one byte long, the
\* destination is empty, the ledger is missing or empty.
Init ==
    /\ src \in [Names -> {NoFile, File(<<>>), File(<<0>>)}]
    /\ dst = [n \in Names |-> NoFile]
    /\ logfile \in {NoFile, File(<<>>)}
    /\ pc = "main"
    /\ todo = <<>>
    /\ file = <<>>
    /\ s1 = 0
    /\ c1 = 0
    /\ c2 = 0
    /\ writes = 0
    /\ fault = "none"
    /\ diedAt = "none"
    /\ verified = {}
    /\ starts = [n \in Names |-> 0]
    /\ cyc = FreshCycle

\* The process ends at `entry`: exit(), an exception nobody catches, or a
\* kill.  Its memory is gone; what it died at, the checksums it had, and
\* what happened to the copy of that entry are kept as its last words.
Die(why, entry) ==
    /\ pc' = "dead"
    /\ fault' = why
    /\ diedAt' = pc
    /\ file' = entry
    /\ todo' = <<>>
    /\ s1' = 0
    /\ cyc' = [FreshCycle EXCEPT !.raced = cyc.raced \cap {entry},
                                 !.damaged = cyc.damaged \cap {entry}]
    /\ UNCHANGED <<c1, c2>>

Alive == /\ UNCHANGED <<fault, diedAt>>

\* ------------------------------------------------------------ the process
\* main, line 164: process_loop is called; line 24: os.listdir, in any order.
ListDir ==
    /\ pc = "main"
    /\ \E order \in Perms({n \in Names : src[n].exists}) :
           todo' = order
    /\ pc' = "for"
    /\ cyc' = [FreshCycle EXCEPT !.listed = {n \in Names : src[n].exists},
                                 !.before = {n \in Names : Recorded(n)},
                                 !.logfile0 = logfile,
                                 !.dst0 = dst,
                                 !.second = cyc.done /\ cyc.changed = {},
                                 !.retry = IF cyc.done THEN cyc.notready ELSE {}]
    /\ Alive
    /\ UNCHANGED <<fsVars, file, s1, c1, c2, envVars, verified, starts>>

\* Line 24 with no entry left: process_loop returns to main.
Return ==
    /\ pc = "for"
    /\ todo = <<>>
    /\ pc' = "main"
    /\ file' = <<>>
    /\ cyc' = [cyc EXCEPT !.done = TRUE]
    /\ Alive
    /\ UNCHANGED <<fsVars, todo, s1, c1, c2, envVars, histVars>>

\* Lines 24-26: the next entry, and whether the ledger has it already.
NextEntry ==
    /\ pc = "for"
    /\ todo # <<>>
    /\ LET answer == already_copied(fullfilename(Head(todo)), logfile)
       IN  \/ /\ answer = "yes"
              /\ pc' = "for"
              /\ file' = Head(todo)
              /\ todo' = Tail(todo)
              /\ cyc' = [cyc EXCEPT !.skipped = @ \cup {Head(todo)}]
              /\ Alive
              /\ UNCHANGED <<s1, c1, c2>>
           \/ /\ answer = "no"
              /\ pc' = "size1"
              /\ file' = Head(todo)
              /\ todo' = Tail(todo)
              /\ Alive
              /\ UNCHANGED <<s1, c1, c2, cyc>>
           \/ /\ answer = "raise"
              /\ Die("io", Head(todo))
    /\ UNCHANGED <<fsVars, envVars, histVars>>

\* ready_for_copy, line 78: the first size; an OSError means not ready.
Size1 ==
    /\ pc = "size1"
    /\ IF src[file].exists
       THEN /\ s1' = getsize(src[file])
            /\ pc' = "size2"
            /\ UNCHANGED cyc
       ELSE /\ pc' = "for"
            /\ cyc' = [cyc EXCEPT !.notready = @ \cup {file}]
            /\ UNCHANGED s1
    /\ Alive
    /\ UNCHANGED <<fsVars, todo, file, c1, c2, envVars, histVars>>

\* Lines 85-86 lost: the OSError of the second getsize leaves ready_for_copy.
Size2Raises ==
    /\ pc = "size2"
    /\ IF src[file].exists
       THEN LET s2 == getsize(src[file])
            IN  /\ cyc' = [cyc EXCEPT !.samples[file] = <<s1, s2>>,
                                      !.notready = IF is_ready(s1, s2) THEN @
                                                   ELSE @ \cup {file}]
                /\ pc' = IF is_ready(s1, s2) THEN "put" ELSE "for"
                /\ Alive
                /\ UNCHANGED locals
       ELSE /\ Die("io", file)
    /\ UNCHANGED <<fsVars, envVars, histVars>>

\* ready_for_copy, lines 79-87: after the sleep, the second size and the answer.
Size2 ==
    /\ pc = "size2"
    /\ IF src[file].exists
       THEN LET s2 == getsize(src[file])
            IN  /\ cyc' = [cyc EXCEPT !.samples[file] = <<s1, s2>>,
                                      !.notready = IF is_ready(s1, s2) THEN @
                                                   ELSE @ \cup {file}]
                /\ pc' = IF is_ready(s1, s2) THEN "put" ELSE "for"
       ELSE /\ pc' = "for"
            /\ cyc' = [cyc EXCEPT !.notready = @ \cup {file}]
    /\ Alive
    /\ UNCHANGED <<fsVars, locals, envVars, histVars>>

\* Line 30: the path goes into the ledger.
Put ==
    /\ pc = "put"
    /\ logfile' = put_into_logfile(fullfilename(file), logfile)
    /\ cyc' = [cyc EXCEPT !.put = @ \cup {file}]
    /\ pc' = "sum1"
    /\ Alive
    /\ UNCHANGED <<src, dst, locals, envVars, histVars>>

\* Line 31: checksum of the source; a missing file is an uncaught exception.
ChecksumSrc ==
    /\ pc = "sum1"
    /\ IF src[file].exists
       THEN /\ c1' = get_checksum(src[file])
            /\ cyc' = [cyc EXCEPT !.summed = @ \cup {file}]
            /\ pc' = "copy"
            /\ Alive
            /\ UNCHANGED <<todo, file, s1, c2>>
       ELSE /\ Die("io", file)
    /\ UNCHANGED <<fsVars, envVars, histVars>>

\* Line 33, shutil.copy: source and destination are opened, the destination
\* is created or truncated.
CopyOpen ==
    /\ pc = "copy"
    /\ IF src[file].exists
       THEN /\ dst' = [dst EXCEPT ![file] = File(<<>>)]
            /\ starts' = [starts EXCEPT ![file] = IF @ < 2 THEN @ + 1 ELSE @]
            /\ pc' = "write"
            /\ Alive
            /\ UNCHANGED <<locals, cyc>>
       ELSE /\ Die("io", file)
            /\ UNCHANGED <<dst, starts>>
    /\ UNCHANGED <<src, logfile, envVars, verified>>

\* Line 33, shutil.copy: the bytes of the source are written to the
\* destination (files of this size in one piece).
CopyWrite ==
    /\ pc = "write"
    /\ dst' = [dst EXCEPT ![file] = File(src[file].data)]
    /\ cyc' = [cyc EXCEPT !.copied[file] = @ + 1,
                          !.raced = IF md5(src[file].data) # c1 THEN @ \cup {file}
                                    ELSE @]
    /\ pc' = "sum2"
    /\ Alive
    /\ UNCHANGED <<src, logfile, locals, envVars, histVars>>

\* Line 34: checksum of the copy.
ChecksumDst ==
    /\ pc = "sum2"
    /\ c2' = get_checksum(dst[file])
    /\ pc' = "if"
    /\ Alive
    /\ UNCHANGED <<fsVars, todo, file, s1, c1, envVars, histVars, cyc>>

\* Lines 36-42: exit() when the checksums differ, else on to the next entry.
Verify ==
    /\ pc = "if"
    /\ IF mismatch(c1, c2)
       THEN /\ Die("exit", file)
            /\ UNCHANGED verified
       ELSE /\ pc' = "for"
            /\ verified' = verified \cup {file}
            /\ Alive
            /\ UNCHANGED <<locals, cyc>>
    /\ UNCHANGED <<fsVars, envVars, starts>>

\* ------------------------------------------------------- the environment
\* What one step of the writer makes of a file: it creates it empty, appends
\* a byte, overwrites a byte in place, or removes it.
WriterSteps(f) ==
    IF ~f.exists THEN {File(<<>>)}
    ELSE {NoFile}
         \cup {File(Append(f.data, b)) : b \in {x \in Byte : Len(f.data) < MaxSize}}
         \cup {File([f.data EXCEPT ![i] = 1 - @]) : i \in 1..Len(f.data)}

\* Whoever fills the source directory works on one file.  A file shutil.copy holds open keeps its bytes until it
\* is closed, so its removal is taken to come after the write.
Writer ==
    /\ writes < MaxWrites
    /\ \E n \in Names : \E f \in WriterSteps(src[n]) :
           /\ ~(pc = "write" /\ file = n /\ ~f.exists)
           /\ src' = [src EXCEPT ![n] = f]
           /\ cyc' = IF pc = "dead" THEN cyc ELSE [cyc EXCEPT !.changed = @ \cup {n}]
    /\ writes' = writes + 1
    /\ Alive
    /\ UNCHANGED <<dst, logfile, pc, locals, histVars>>

\* The copy is damaged after shutil.copy returned and before line 34 reads it.
Corrupt ==
    /\ pc = "sum2"
    /\ \E d \in Contents :
           /\ d # dst[file].data
           /\ dst' = [dst EXCEPT ![file] = File(d)]
    /\ Alive
    /\ cyc' = [cyc EXCEPT !.damaged = @ \cup {file}]
    /\ UNCHANGED <<src, logfile, pc, locals, writes, histVars>>

\* The process is killed (a signal, a power cut, Ctrl-C) at any statement.
Kill ==
    /\ pc # "dead"
    /\ Die("kill", file)
    /\ UNCHANGED <<fsVars, writes, verified, starts>>

\* The program is started again with the same configuration.
Restart ==
    /\ pc = "dead"
    /\ pc' = "main"
    /\ fault' = "none"
    /\ diedAt' = "none"
    /\ file' = <<>>
    /\ c1' = 0
    /\ c2' = 0
    /\ UNCHANGED <<fsVars, todo, s1, cyc, envVars, verified, starts>>

Process ==
    \/ ListDir \/ Return \/ NextEntry \/ Size1 \/ Size2 \/ Put
    \/ ChecksumSrc \/ CopyOpen \/ CopyWrite \/ ChecksumDst \/ Verify

Next == Process \/ Writer \/ Corrupt \/ Kill \/ Restart

Spec == Init /\ [][Next]_vars

\* The process is never killed, and the outer loop of main keeps calling
\* process_loop while the process lives.
NextUnkilled == Process \/ Writer \/ Corrupt \/ Restart

FairSpec == Init /\ [][NextUnkilled]_vars /\ WF_vars(Process)

\* ------------------------------------------------------------ the claims
\* What already_copied answers for a name's path on the present ledger.
Known(n) == already_copied(fullfilename(n), logfile) = "yes"

\* The statements of an entry's work before shutil.copy has returned.
BeforeCopied == {"put", "sum1", "copy", "write"}

\* The process is at entry n, and shutil.copy has not returned yet.
InWork(n) == file = n /\ pc \in BeforeCopied

\* C1: in every reachable state a path is a record of the ledger if and only
\* if its file was copied and the two checksums were compared equal before.
C1_LedgerIffVerified ==
    \A n \in Names : Recorded(n) <=> n \in verified

\* C2: already_copied(p) is true if and only if some ledger record equals p
\* as a whole string; a proper prefix of a recorded path is not "copied".
C2_ContainsIsExactMatch ==
    \A n \in Names : Known(n) <=> Recorded(n)

\* C3: once the copy of p has passed verification, already_copied(p) is
\* true in every later state, in later cycles and after restarts.
C3_VerifiedStaysKnown ==
    \A n \in verified : Known(n)

\* C3 witness: the program has just been started again (no call of
\* process_loop since), with a file verified by an earlier run still there.
C3_Witness ==
    /\ pc = "main"
    /\ ~cyc.done
    /\ \E n \in verified : src[n].exists /\ Known(n)

\* C4: when the work on an entry ends with the process alive the two
\* checksums are equal, and when they differ at line 36 the step that
\* leaves line 36 ends the process.
C4_ChecksumLaw ==
    [][(pc = "if" /\ pc' # "if") =>
           /\ pc' = "for" => c1 = c2
           /\ c1 # c2 => pc' = "dead"]_vars

\* C4 witness: with an idle writer the copy was damaged before line 34, the
\* checksums differed and the process exited at line 40.
C4_Witness ==
    /\ pc = "dead" /\ fault = "exit" /\ diedAt = "if"
    /\ writes = 0
    /\ c1 = get_checksum(src[file])
    /\ c2 # c1
    /\ dst[file] # src[file]

\* C5: within one call of process_loop an entry whose two size samples
\* differ is neither copied nor recorded, and an unrecorded entry whose two
\* samples are equal is copied and recorded, once the process got past
\* shutil.copy for it.
C5_StabilityGate ==
    \A n \in Names :
        LET sm == cyc.samples[n]
        IN  /\ (sm # NoSample /\ sm[1] # sm[2]) =>
                   /\ n \notin cyc.put
                   /\ cyc.copied[n] = 0
                   /\ Recorded(n) => n \in cyc.before
            /\ (sm # NoSample /\ sm[1] = sm[2] /\ ~InWork(n)) =>
                   /\ n \in cyc.put
                   /\ cyc.copied[n] = 1
                   /\ Recorded(n)
                   /\ dst[n].exists

\* C5 witness: the call has returned; one entry grew between the samples and
\* was left alone, another was stable and is copied and recorded.
C5_Witness ==
    /\ cyc.done
    /\ \E n, m \in Names :
           /\ cyc.samples[n] # NoSample
           /\ cyc.samples[n][1] # cyc.samples[n][2]
           /\ ~dst[n].exists /\ ~Recorded(n)
           /\ cyc.samples[m] # NoSample
           /\ cyc.samples[m][1] = cyc.samples[m][2]
           /\ cyc.copied[m] = 1 /\ Recorded(m)

\* C6: a second call of process_loop over a source directory nobody touched
\* since the first call began, the first having returned, computes no
\* checksum, copies nothing and appends nothing: the ledger and the
\* destination are as the first call left them.
C6_SecondRunIdle ==
    (cyc.done /\ cyc.second /\ cyc.changed = {}) =>
        /\ cyc.put = {}
        /\ cyc.summed = {}
        /\ \A n \in Names : cyc.copied[n] = 0
        /\ logfile = cyc.logfile0
        /\ dst = cyc.dst0

\* C6 witness: such a second call has returned, having skipped an entry the
\* first call copied.
C6_Witness ==
    /\ cyc.done /\ cyc.second /\ cyc.changed = {}
    /\ \E n \in cyc.skipped : n \in verified /\ dst[n].exists

\* C7: one call of process_loop copies every listed entry that is not a
\* record of the ledger and whose size is stable exactly once, whatever the
\* names and the order of the listing.
C7_EveryReadyEntryOnce ==
    cyc.done =>
        \A n \in cyc.listed :
            (n \notin cyc.before /\ n \notin cyc.changed) => cyc.copied[n] = 1

\* C8: a kill between the ready answer and the end of verification leaves no
\* record of the entry, and the ledger does not make the call after the
\* restart skip it.
C8_CrashLeavesNoTrace ==
    (pc = "dead" /\ fault = "kill" /\ diedAt \in CopySteps) =>
        /\ ~Recorded(file)
        /\ ~Known(file)

\* C9: when calls of process_loop keep returning, a file that stays in the
\* source directory (and, the writer being bounded, stops changing) is
\* eventually copied.
C9_NoPermanentBlacklist ==
    \A n \in Names :
        ([]<>(pc = "main" /\ cyc.done) /\ <>[](src[n].exists))
            => <>(cyc.copied[n] > 0 \/ n \in verified)

\* C10: with no ledger file already_copied answers no for every path and
\* nothing raises, process_loop does not die at the ledger check, and after
\* a verified copy the ledger file exists and holds the path.
C10_MissingLedgerTolerated ==
    /\ ~logfile.exists => \A n \in Names : already_copied(fullfilename(n), logfile) = "no"
    /\ ~(pc = "dead" /\ fault = "io" /\ diedAt = "for")
    /\ \A n \in verified : logfile.exists /\ Recorded(n)

\* C10 witness: the call began without a ledger file, and now a copy is
\* verified and the file is there.
C10_Witness ==
    /\ cyc.listed # {}
    /\ ~cyc.logfile0.exists
    /\ logfile.exists
    /\ \E n \in verified : n \in cyc.put /\ Recorded(n)

\* How many lines of the ledger are exactly `name`'s path.
Records(name) ==
    IF ~logfile.exists THEN 0
    ELSE LET loglist == readlines(logfile.data)
         IN  Cardinality({k \in 1..Len(loglist) : loglist[k] = Append(fullfilename(name), NL)})

\* C11: whatever calls of process_loop, deaths and restarts came before, no
\* path is a record of the ledger more than once.
C11_RecordedAtMostOnce ==
    \A n \in Names : Records(n) <= 1

\* C11 witness: a call that followed a returned call has returned too, and
\* the ledger is two lines, one for each path.
C11_Witness ==
    /\ cyc.done /\ cyc.second
    /\ Len(readlines(logfile.data)) = 2
    /\ \A n \in Names : Records(n) = 1

\* C12: the work on an entry goes put_into_logfile, get_checksum of the
\* source, shutil.copy, get_checksum of the copy, compare: from the source
\* checksum on the path is a record of the ledger, shutil.copy starts with
\* the path recorded and the source checksum taken, and neither checksum nor
\* copy comes before its turn.
C12_StepOrder ==
    /\ pc \in {"sum1", "copy", "write", "sum2", "if"} =>
           file \in cyc.put /\ Recorded(file)
    /\ pc \in {"put", "sum1"} => file \notin cyc.summed
    /\ pc \in {"copy", "write", "sum2", "if"} => file \in cyc.summed
    /\ pc \in {"put", "sum1", "copy", "write"} => cyc.copied[file] = 0
    /\ pc \in {"sum2", "if"} => cyc.copied[file] = 1
    /\ \A n \in Names :
           /\ n \in cyc.summed => n \in cyc.put
           /\ cyc.copied[n] > 0 => n \in cyc.summed

\* C12 witness: shutil.copy has opened the files of an entry that is in the
\* ledger and whose source checksum is taken; no byte is copied yet.
C12_Witness ==
    /\ pc = "write"
    /\ Recorded(file)
    /\ file \in cyc.summed
    /\ c1 = get_checksum(src[file])
    /\ src[file].data # <<>>
    /\ dst[file] = File(<<>>)

\* C13: when the checksums differ at line 36 the step that leaves line 36
\* ends the process with entries of the listing possibly still unvisited,
\* and it changes neither the ledger nor the destination: the record of the
\* entry and its copy stay; a process that exited this way does nothing
\* more, and only a new start follows.
C13_MismatchIsFatal ==
    [][/\ (pc = "if" /\ c1 # c2 /\ pc' # "if") =>
              /\ pc' = "dead"
              /\ logfile' = logfile /\ dst' = dst
              /\ Recorded(file) /\ dst[file].exists
       /\ (pc = "dead" /\ fault = "exit") =>
              /\ pc' \in {"dead", "main"}
              /\ logfile' = logfile /\ dst' = dst]_vars

\* C13 witness: with an idle writer the process has exited at line 40; the
\* mismatched entry is recorded and its copy is there, and another entry of
\* the listing, stable and unrecorded, was never reached.
C13_Witness ==
    /\ pc = "dead" /\ fault = "exit" /\ diedAt = "if"
    /\ writes = 0
    /\ Recorded(file) /\ dst[file].exists
    /\ get_checksum(dst[file]) = c2
    /\ \E m \in Names : m # file /\ src[m].exists /\ ~Known(m) /\ ~dst[m].exists

\* The statements of ready_for_copy and of the work on a ready entry.
Handling == {"size1", "size2"} \cup CopySteps

\* C14: a path that is a record of the ledger, was never verified and was not
\* recorded by the present call (the process that recorded it died between
\* line 30 and the end of line 36) is answered yes by already_copied, and no
\* call probes it, takes its checksum or copies it.
C14_InterruptedIsSkipped ==
    \A n \in Names :
        (Recorded(n) /\ n \notin verified /\ n \notin cyc.put) =>
            /\ Known(n)
            /\ ~(file = n /\ pc \in Handling)
            /\ cyc.samples[n] = NoSample
            /\ n \notin cyc.summed
            /\ cyc.copied[n] = 0

\* C14 witness: a call of the restarted process has returned; it skipped a
\* file that is still in the source directory, recorded and never verified.
C14_Witness ==
    /\ cyc.done
    /\ \E n \in cyc.skipped :
           /\ Recorded(n) /\ n \in cyc.before
           /\ n \notin verified
           /\ src[n].exists

\* ready_for_copy was called for n in the present call and has returned.
Probed(n) == n \in cyc.notready \/ cyc.samples[n] # NoSample

\* C15: an entry ready_for_copy answered False for is left alone by the
\* call (no record, no checksum, no copy, its place in the destination as
\* the call found it), and when the call has returned and the next call
\* lists the entry again, that call probes it again.
C15_NotReadyIsRetried ==
    /\ \A n \in cyc.notready :
           /\ n \notin cyc.put /\ ~Recorded(n)
           /\ n \notin cyc.summed
           /\ cyc.copied[n] = 0
           /\ dst[n] = cyc.dst0[n]
    /\ cyc.done => \A n \in cyc.retry \cap cyc.listed : Probed(n)

\* C16: when the file is gone at the first or at the second getsize, the
\* step that leaves ready_for_copy goes back to the for loop with the answer
\* not ready, the rest of the listing still to visit and ledger and
\* destination untouched; the process ends there only when it is killed.
C16_VanishedIsNotReady ==
    [][(pc \in {"size1", "size2"} /\ ~src[file].exists /\ pc' # pc) =>
           \/ pc' = "dead" /\ fault' = "kill"
           \/ /\ pc' = "for"
              /\ todo' = todo
              /\ file \in cyc'.notready
              /\ logfile' = logfile /\ dst' = dst]_vars

\* C16 witness: a call has returned in which a size read failed for an entry
\* that is gone, and which copied another entry.
C16_Witness ==
    /\ cyc.done
    /\ \E n \in cyc.notready, m \in Names :
           /\ n \in cyc.listed /\ ~src[n].exists
           /\ cyc.samples[n] = NoSample
           /\ m # n /\ cyc.copied[m] = 1

\* C17: whatever calls, kills, exits and restarts came before, and whatever
\* the writer did to the file since its path was recorded, shutil.copy was
\* started for no path more than once.
C17_CopyStartedAtMostOnce ==
    \A n \in Names : starts[n] <= 1

\* C17 witness: a call has returned that skipped a file whose one copy never
\* passed verification and whose content the writer changed during this
\* call; source and copy differ.
C17_Witness ==
    /\ cyc.done
    /\ \E n \in cyc.skipped \cap cyc.changed :
           /\ starts[n] = 1
           /\ n \notin verified
           /\ src[n].exists /\ dst[n].exists
           /\ src[n].data # dst[n].data

\* C18: a file in the destination directory, whole or partial, has its
\* source path as a record of the ledger.
C18_CopyImpliesRecord ==
    \A n \in Names : dst[n].exists => Recorded(n)

\* C18 witness: the process was killed inside shutil.copy; the destination
\* file exists without the bytes of the source, and its path is recorded.
C18_Witness ==
    /\ pc = "dead" /\ fault = "kill" /\ diedAt = "write"
    /\ dst[file].exists
    /\ dst[file].data # src[file].data
    /\ Recorded(file)

\* C19: when shutil.copy read other bytes of the source than get_checksum
\* had read, and nothing altered the copy afterwards, the step that leaves
\* line 36 ends the process, the path a record of the ledger and the entry
\* not verified; and whenever line 36 lets the loop go on, the copy in the
\* destination has the checksum taken of the source.
C19_RacedCopyIsRejected ==
    [][/\ (pc = "if" /\ file \in cyc.raced /\ file \notin cyc.damaged /\ pc' # "if") =>
              /\ c1 # c2
              /\ pc' = "dead" /\ fault' \in {"exit", "kill"}
              /\ Recorded(file)
              /\ verified' = verified
       /\ (pc = "if" /\ pc' = "for") => get_checksum(dst[file]) = c1]_vars

\* C19 witness: the process has exited at line 40 on an entry whose bytes
\* the writer changed between line 31 and the read of shutil.copy; the copy
\* is what shutil.copy wrote, the bytes of the changed source.
C19_Witness ==
    /\ pc = "dead" /\ fault = "exit" /\ diedAt = "if"
    /\ file \in cyc.raced /\ file \notin cyc.damaged
    /\ Recorded(file) /\ file \notin verified
    /\ dst[file].exists
    /\ get_checksum(dst[file]) = c2 /\ c2 # c1
    /\ dst[file].data = src[file].data

====
